---- MODULE Spec2Model ----
(***************************************************************************)
(* Model of app.py, the Foster Finance Deal Assistant (a Streamlit script). *)
(*                                                                         *)
(* Streamlit re-executes the whole script, top to bottom, after every      *)
(* widget interaction.  The state is therefore the value of the widgets    *)
(* (api key, uploaded CSV, query text, model selectbox) plus what the last *)
(* execution of the script produced (messages on screen, match_score       *)
(* column, the selected context rows, the state of the provider call).     *)
(* Every user interaction is one action that stores the widget value and   *)
(* runs the script; the provider call made by run_ai under tenacity's      *)
(* @retry is split into one step per generate_content request, because the *)
(* outcome of each request is chosen by the provider.                      *)
(*                                                                         *)
(* Text is a sequence of one-character strings.                            *)
(***************************************************************************)
EXTENDS Naturals, Integers, Sequences, FiniteSets, TLC

(***************************************************************************)
(* Bounds of the model.                                                    *)
(***************************************************************************)
MaxRows == 4
MaxQueryLen == 3

(***************************************************************************)
(* Program constants.                                                      *)
(***************************************************************************)
\* Variants of stop_after_attempt: one attempt fewer, one attempt more.
StopAfterTwo == 3 - 1
StopAfterFour == 3 + 1
StopAfterAttempt == 3
HeadN == 3

Range(s) == {s[i] : i \in 1..Len(s)}

(***************************************************************************)
(* str.lower(), str.replace(',', ''), str.split() and the "in" operator on *)
(* strings, line 146 and line 149.                                         *)
(***************************************************************************)
LowerChar(c) ==
    IF c = "A" THEN "a" ELSE IF c = "B" THEN "b" ELSE c

lower(s) == [i \in 1..Len(s) |-> LowerChar(s[i])]

IsComma(c) == c = ","

replace_commas(s) == SelectSeq(s, LAMBDA c : ~IsComma(c))

IsSpace(c) == c = " "

RECURSIVE SplitFrom(_, _, _, _)
SplitFrom(s, i, cur, acc) ==
    IF i > Len(s)
    THEN (IF cur = <<>> THEN acc ELSE Append(acc, cur))
    ELSE IF IsSpace(s[i])
         THEN SplitFrom(s, i + 1, <<>>, IF cur = <<>> THEN acc ELSE Append(acc, cur))
         ELSE SplitFrom(s, i + 1, Append(cur, s[i]), acc)

split(s) == SplitFrom(s, 1, <<>>, <<>>)

\* A variant of set(words) that keeps the list: duplicates stay.
KeepDuplicates(words) == words

\* set(words): the words without duplicates, in some iteration order.
RECURSIVE SetOfWords(_)
SetOfWords(words) ==
    IF words = <<>> THEN <<>>
    ELSE LET rest == SetOfWords(Tail(words))
         IN  IF Head(words) \in Range(rest) THEN rest ELSE <<Head(words)>> \o rest

user_terms(user_input) == SetOfWords(split(replace_commas(lower(user_input))))

Contains(term, text) ==
    \E i \in 0..(Len(text) - Len(term)) : SubSeq(text, i + 1, i + Len(term)) = term

(***************************************************************************)
(* str(row.values): numpy prints an object array as "[" repr(v1) " "       *)
(* repr(v2) ... "]"; a text cell prints quoted, an empty CSV cell is read  *)
(* by pandas as NaN and prints as nan.                                     *)
(***************************************************************************)
ReprCell(cell) ==
    IF cell = <<>> THEN <<"n", "a", "n">> ELSE <<"'">> \o cell \o <<"'">>

RECURSIVE JoinCells(_)
JoinCells(row) ==
    IF row = <<>> THEN <<>>
    ELSE IF Len(row) = 1 THEN ReprCell(row[1])
    ELSE ReprCell(row[1]) \o <<" ">> \o JoinCells(Tail(row))

StrValues(row) == <<"[">> \o JoinCells(row) \o <<"]">>

RECURSIVE SumMatches(_, _)
SumMatches(terms, row_text) ==
    IF terms = <<>> THEN 0
    ELSE (IF Contains(Head(terms), row_text) THEN 1 ELSE 0)
         + SumMatches(Tail(terms), row_text)

calculate_score(row, terms) == SumMatches(terms, lower(StrValues(row)))

(***************************************************************************)
(* The uploaded CSV as pandas reads it: the header line and the rows.      *)
(***************************************************************************)
required_columns ==
    <<"Client Requirements", "Client Objectives", "Product Features",
      "Why this Product was Selected">>

\* A full header, a header with an extra column, a header without
\* "Product Features", and a header that misses three columns (header
\* comparison is exact: "product features" is another column).
HeaderFull == required_columns
HeaderExtra == required_columns \o <<"Notes">>
HeaderNoFeatures ==
    <<"Client Requirements", "Client Objectives", "Why this Product was Selected">>
HeaderOnlyRequirements == <<"Client Requirements", "product features", "Notes">>

\* Two deal records (five cells; a CSV with fewer columns has the first cells).
RowX == << <<"b">>, <<"B">>, <<"a", "b">>, <<"b">>, <<"b">> >>
RowY == << <<"a">>, <<>>, <<"a">>, <<"a">>, <<>> >>
RowPool == {RowX, RowY}

SeqsUpTo(S, n) == UNION {[1..k -> S] : k \in 0..n}

CsvFile(header, poolRows) ==
    [columns |-> header, none |-> FALSE, unreadable |-> FALSE,
     rows |-> [i \in 1..Len(poolRows) |-> SubSeq(poolRows[i], 1, Len(header))]]

NoFile == [columns |-> <<>>, none |-> TRUE, unreadable |-> FALSE, rows |-> <<>>]

\* A file pd.read_csv raises on (an empty file has no columns to parse).
EmptyFile == [columns |-> <<>>, none |-> FALSE, unreadable |-> TRUE, rows |-> <<>>]

\* The files of the workflow specification.
Files ==
    {CsvFile(h, t) : h \in {HeaderFull, HeaderExtra, HeaderNoFeatures, HeaderOnlyRequirements},
                     t \in SeqsUpTo(RowPool, 1)}
    \cup {EmptyFile}

\* The files of the scoring specification: every table of up to MaxRows rows.
ScoringFiles ==
    {CsvFile(HeaderFull, t) : t \in SeqsUpTo(RowPool, MaxRows)}
    \cup {CsvFile(HeaderExtra, t) : t \in SeqsUpTo(RowPool, 1)}

\* Query texts the analyst types in the workflow specification.
Queries ==
    { <<>>, <<"b">>, <<"B", ",", " ", "a">>, <<"c", " ", "c">> }

QueryChars == {"a", "B", ",", " "}
AllQueries == SeqsUpTo(QueryChars, MaxQueryLen)

(***************************************************************************)
(* The provider's answer to genai.list_models(): an exception, or the      *)
(* models with whether each supports generateContent.                      *)
(***************************************************************************)
ListException == <<[name |-> "Exception", generateContent |-> FALSE]>>

ListAll ==
    <<[name |-> "models/gemini-pro", generateContent |-> TRUE],
      [name |-> "models/embedding-001", generateContent |-> FALSE],
      [name |-> "models/gemini-1.5-flash", generateContent |-> TRUE],
      [name |-> "models/gemini-3-flash", generateContent |-> TRUE]>>

ListOld ==
    <<[name |-> "models/gemini-pro", generateContent |-> TRUE],
      [name |-> "models/gemini-1.5-flash", generateContent |-> TRUE]>>

ListResponses == {ListException, ListAll, ListOld}

\* list_models() is not called while the key is empty.
NotCalled == <<>>

RECURSIVE NamesOf(_)
NamesOf(models) ==
    IF models = <<>> THEN <<>>
    ELSE (IF Head(models).generateContent THEN <<Head(models).name>> ELSE <<>>)
         \o NamesOf(Tail(models))

\* A variant of get_available_models that guesses a default model on failure.
get_available_models_guess(api_key_, response) ==
    IF response = ListException THEN <<"models/gemini-1.5-flash">> ELSE NamesOf(response)

get_available_models(api_key_, response) ==
    IF response = ListException THEN <<>> ELSE NamesOf(response)

IsGemini3Flash(m) == m \in {"models/gemini-3.0-flash", "models/gemini-3-flash"}
IsGemini15Flash(m) == m = "models/gemini-1.5-flash"

\* First position (from 1) of a model of the kind, 0 when there is none.
FirstGemini3Flash(models) ==
    IF \E i \in 1..Len(models) : IsGemini3Flash(models[i])
    THEN CHOOSE i \in 1..Len(models) :
            IsGemini3Flash(models[i]) /\ \A j \in 1..(i - 1) : ~IsGemini3Flash(models[j])
    ELSE 0

FirstGemini15Flash(models) ==
    IF \E i \in 1..Len(models) : IsGemini15Flash(models[i])
    THEN CHOOSE i \in 1..Len(models) :
            IsGemini15Flash(models[i]) /\ \A j \in 1..(i - 1) : ~IsGemini15Flash(models[j])
    ELSE 0

\* default_ix of the sidebar, as a position from 1.
default_ix(models) ==
    IF FirstGemini3Flash(models) # 0 THEN FirstGemini3Flash(models)
    ELSE IF FirstGemini15Flash(models) # 0 THEN FirstGemini15Flash(models)
    ELSE 1

Msg(level, kind, detail) == [level |-> level, kind |-> kind, detail |-> detail]

\* The sidebar: what it shows and the model it selects ("None" for None).
\* choice is the option the analyst picked in the selectbox, 0 for no pick.
Sidebar(key, response, choice) ==
    IF key = "" THEN [available |-> <<>>, selected |-> "None", shown |-> {}]
    ELSE LET available == get_available_models(key, response)
         IN  IF available # <<>>
             THEN [available |-> available,
                   selected |-> IF choice \in 1..Len(available)
                                THEN available[choice]
                                ELSE available[default_ix(available)],
                   shown |-> {Msg("success", "connected", <<>>)}]
             ELSE [available |-> <<>>, selected |-> "None",
                   shown |-> {Msg("error", "connection_failed", <<>>)}]

(***************************************************************************)
(* df.sort_values(by='match_score', ascending=False).head(3).  The sort    *)
(* kind is the default, "quicksort", which numpy does not make stable: the *)
(* order of rows with equal score is the build's.  impl names the build:   *)
(* "stable" keeps equal rows in row order, "unstable" is a build that      *)
(* returns them in another order (here: reversed).                         *)
(***************************************************************************)
Best(remaining, scores, impl) ==
    CHOOSE i \in remaining :
        \A j \in remaining \ {i} :
            \/ scores[i] > scores[j]
            \/ scores[i] = scores[j] /\ (IF impl = "stable" THEN i < j ELSE i > j)

RECURSIVE SortFrom(_, _, _)
SortFrom(remaining, scores, impl) ==
    IF remaining = {} THEN <<>>
    ELSE LET b == Best(remaining, scores, impl)
         IN  <<b>> \o SortFrom(remaining \ {b}, scores, impl)

sort_values(scores, impl) == SortFrom(1..Len(scores), scores, impl)

\* A variant of head(n) that takes one row more.
head_one_more(s, n) == SubSeq(s, 1, IF Len(s) < n + 1 THEN Len(s) ELSE n + 1)

head(s, n) == SubSeq(s, 1, IF Len(s) < n THEN Len(s) ELSE n)

\* Series.max(): NaN for an empty series.
series_max(values) ==
    IF values = <<>> THEN [nan |-> TRUE, value |-> 0]
    ELSE [nan |-> FALSE,
          value |-> CHOOSE v \in Range(values) : \A w \in Range(values) : v >= w]

\* A variant of the comparison: >= 0 for > 0.
MaxIsNotNegative(values) == ~series_max(values).nan /\ series_max(values).value >= 0

\* matches['match_score'].max() > 0 (a comparison with NaN is False).
MaxIsPositive(values) == ~series_max(values).nan /\ series_max(values).value > 0

context_type_of(matchScores) ==
    IF MaxIsPositive(matchScores) THEN "Historic Matches" ELSE "General Logic"

\* A variant of the validation that leaves "Product Features" unchecked.
missing_columns_unchecked(columns) ==
    SelectSeq(required_columns,
              LAMBDA col : col \notin Range(columns) /\ col # "Product Features")

\* required_columns that are not among the columns of the file, in the
\* order of required_columns.
missing_columns(columns) ==
    SelectSeq(required_columns, LAMBDA col : col \notin Range(columns))

\* matches[required_columns]: the cells of the required columns of a row.
ColumnIndex(columns, col) == CHOOSE i \in 1..Len(columns) : columns[i] = col

RequiredCells(file, r) ==
    [k \in 1..Len(required_columns) |->
        file.rows[r][ColumnIndex(file.columns, required_columns[k])]]

NoPrompt == [built |-> FALSE, user_input |-> <<>>, context_type |-> "None",
             context_data |-> <<>>]

\* The form (text area and button) is rendered when a readable file with all
\* required columns is uploaded.
FormRendered(file) ==
    ~file.none /\ ~file.unreadable /\ missing_columns(file.columns) = <<>>

NoScoring == [scored |-> FALSE, match_score |-> <<>>, matches |-> <<>>,
              context_type |-> "None", prompt |-> NoPrompt, phase |-> "Idle"]

\* Lines 146 to 184: scoring, selection of the context rows and the prompt.
Scoring(file, query, impl) ==
    LET terms == user_terms(query)
        scores == [i \in 1..Len(file.rows) |-> calculate_score(file.rows[i], terms)]
        top == head(sort_values(scores, impl), HeadN)
        ctype == context_type_of([k \in 1..Len(top) |-> scores[top[k]]])
    IN  [scored |-> TRUE, match_score |-> scores, matches |-> top,
         context_type |-> ctype,
         prompt |-> [built |-> TRUE, user_input |-> query, context_type |-> ctype,
                     context_data |-> [k \in 1..Len(top) |-> RequiredCells(file, top[k])]],
         phase |-> "Requesting"]

\* Section 5 of the script, lines 111 to 215: the messages it shows and the
\* result of scoring when the generate branch is taken.
MainLogic(key, selected, file, query, btn, impl) ==
    IF file.none
    THEN [shown |-> {Msg("info", "upload_csv", <<>>)}, out |-> NoScoring]
    ELSE IF file.unreadable
    THEN [shown |-> {Msg("error", "file_error", <<>>)}, out |-> NoScoring]
    ELSE IF missing_columns(file.columns) # <<>>
    THEN [shown |-> {Msg("error", "csv_missing_headers", missing_columns(file.columns))},
          out |-> NoScoring]
    ELSE LET active == {Msg("success", "database_active", <<>>)}
         IN  IF btn /\ key # "" /\ query # <<>>
             THEN IF selected = "None"
                  THEN [shown |-> active \cup {Msg("error", "select_valid_model", <<>>)},
                        out |-> NoScoring]
                  ELSE [shown |-> active, out |-> Scoring(file, query, impl)]
             ELSE IF btn /\ key = ""
                  THEN [shown |-> active \cup {Msg("warning", "enter_api_key", <<>>)},
                        out |-> NoScoring]
                  ELSE [shown |-> active, out |-> NoScoring]

(***************************************************************************)
(* State.                                                                  *)
(***************************************************************************)
VARIABLES
    api_key,            \* the sidebar's text input ("" when empty)
    uploaded_file,      \* the file uploader: NoFile or a file
    user_input,         \* the text area
    model_choice,       \* the option picked in the selectbox, 0 for none
    generate_btn,       \* whether the last run was started by the button
    available_models,   \* what the sidebar listed in the last run
    selected_model,     \* selected_model of the last run, "None" for None
    messages,           \* the status messages the last run put on the page
    scored,             \* whether the last run computed df['match_score']
    match_score,        \* df['match_score'] of the last run
    matches,            \* the rows of matches (row positions, in order)
    context_type,       \* context_type of the last run, "None" when not set
    prompt,             \* the prompt of the last run
    phase,              \* "Idle", "Requesting", "Succeeded", "FatalFailure"
    list_response,      \* what genai.list_models() answered in the last run
    requests,           \* outcomes of the generate_content requests of the last run
    quicksort           \* the build's tie order of the default sort kind

vars == <<api_key, uploaded_file, user_input, model_choice, generate_btn,
          available_models, selected_model, messages, scored, match_score,
          matches, context_type, prompt, phase, list_response, requests, quicksort>>

ApiKeys == {"", "key"}
SortBuilds == {"stable", "unstable"}

\* One execution of the script with the given widget values.  A widget that
\* the run does not render loses its value.
Run(key, file, query, choice, btn, response, impl) ==
    LET side == Sidebar(key, response, choice)
        q == IF FormRendered(file) THEN query ELSE <<>>
        main == MainLogic(key, side.selected, file, q, btn, impl)
    IN  [api_key |-> key,
         uploaded_file |-> file,
         user_input |-> q,
         model_choice |-> IF choice \in 1..Len(side.available) THEN choice ELSE 0,
         generate_btn |-> btn,
         available_models |-> side.available,
         selected_model |-> side.selected,
         messages |-> side.shown \cup main.shown,
         list_response |-> IF key = "" THEN NotCalled ELSE response,
         out |-> main.out]

Rerun(key, file, query, choice, btn, response) ==
    \E r \in {Run(key, file, query, choice, btn, response, quicksort)} :
        /\ api_key' = r.api_key
        /\ uploaded_file' = r.uploaded_file
        /\ user_input' = r.user_input
        /\ model_choice' = r.model_choice
        /\ generate_btn' = r.generate_btn
        /\ available_models' = r.available_models
        /\ selected_model' = r.selected_model
        /\ messages' = r.messages
        /\ scored' = r.out.scored
        /\ match_score' = r.out.match_score
        /\ matches' = r.out.matches
        /\ context_type' = r.out.context_type
        /\ prompt' = r.out.prompt
        /\ phase' = r.out.phase
        /\ list_response' = r.list_response
        /\ requests' = <<>>
        /\ UNCHANGED quicksort

\* The pick in the selectbox survives a run only while the options are the same.
KeptChoice(key, response) ==
    IF get_available_models(key, response) = available_models /\ key # ""
    THEN model_choice ELSE 0

\* The page after a run of the script that the button did not start.
PageAfter(key, file, query, response) ==
    \E r \in {Run(key, file, query, 0, FALSE, response, "stable")} :
        /\ api_key = r.api_key
        /\ uploaded_file = r.uploaded_file
        /\ user_input = r.user_input
        /\ model_choice = r.model_choice
        /\ generate_btn = r.generate_btn
        /\ available_models = r.available_models
        /\ selected_model = r.selected_model
        /\ messages = r.messages
        /\ scored = r.out.scored
        /\ match_score = r.out.match_score
        /\ matches = r.out.matches
        /\ context_type = r.out.context_type
        /\ prompt = r.out.prompt
        /\ phase = r.out.phase
        /\ list_response = r.list_response
        /\ requests = <<>>

\* The first run: nothing entered, nothing uploaded.
InitialRun == PageAfter("", NoFile, <<>>, ListException)

Init == InitialRun /\ quicksort \in SortBuilds

\* The script runs to its end before the page takes the next interaction.
Ready == phase # "Requesting"

EnterApiKey ==
    /\ Ready
    /\ \E key \in ApiKeys, response \in ListResponses :
          Rerun(key, uploaded_file, user_input, KeptChoice(key, response), FALSE, response)

UploadFile ==
    /\ Ready
    /\ \E file \in Files \cup {NoFile}, response \in ListResponses :
          Rerun(api_key, file, user_input, KeptChoice(api_key, response), FALSE, response)

EditQuery ==
    /\ Ready
    /\ FormRendered(uploaded_file)
    /\ \E query \in Queries, response \in ListResponses :
          Rerun(api_key, uploaded_file, query, KeptChoice(api_key, response), FALSE, response)

SelectModel ==
    /\ Ready
    /\ available_models # <<>>
    /\ \E choice \in 1..Len(available_models), response \in ListResponses :
          Rerun(api_key, uploaded_file, user_input,
                IF get_available_models(api_key, response) = available_models
                THEN choice ELSE 0,
                FALSE, response)

ClickGenerate ==
    /\ Ready
    /\ FormRendered(uploaded_file)
    /\ \E response \in ListResponses :
          Rerun(api_key, uploaded_file, user_input, KeptChoice(api_key, response), TRUE, response)

(***************************************************************************)
(* run_ai under @retry(stop=stop_after_attempt(3), wait=wait_exponential): *)
(* one generate_content request per step.  tenacity retries after any      *)
(* exception and raises RetryError once the attempt number reaches         *)
(* stop_after_attempt; the except handler of line 196 then reports it.     *)
(***************************************************************************)
Outcomes == {"ok", "NotFound", "ResourceExhausted", "ServiceUnavailable"}

\* retry's default predicate: retry_if_exception_type(Exception).
ShouldRetry(outcome) == outcome # "ok"

\* str(RetryError) is "RetryError[<Future at 0x... state=finished raised
\* NotFound>]": the class of the last exception and the address of the
\* Future object, whose hexadecimal digits may happen to spell 404 or 429.
Addresses == {"plain", "has404", "has429"}

err_msg_has(err, addr, code, className) == addr = code \/ err = className

FailureMessages(err, addr) ==
    {Msg("error", "generation_failed", <<>>)}
    \cup (IF err_msg_has(err, addr, "has404", "NotFound")
          THEN {Msg("warning", "model_unavailable", <<>>)}
          ELSE IF err_msg_has(err, addr, "has429", "ResourceExhausted")
          THEN {Msg("warning", "quota_exhausted", <<>>)}
          ELSE {Msg("error", "technical_error", <<>>)})

Attempt ==
    /\ phase = "Requesting"
    /\ \E outcome \in Outcomes, addr \in Addresses :
          /\ requests' = Append(requests, outcome)
          /\ IF ~ShouldRetry(outcome)
             THEN /\ phase' = "Succeeded"
                  /\ messages' = messages \cup {Msg("markdown", "draft_proposal", <<>>)}
             ELSE IF Len(requests) + 1 >= StopAfterAttempt
             THEN /\ phase' = "FatalFailure"
                  /\ messages' = messages \cup FailureMessages(outcome, addr)
             ELSE /\ phase' = "Requesting"
                  /\ messages' = messages
    /\ UNCHANGED <<api_key, uploaded_file, user_input, model_choice, generate_btn,
                   available_models, selected_model, scored, match_score, matches,
                   context_type, prompt, list_response, quicksort>>

Next ==
    \/ EnterApiKey
    \/ UploadFile
    \/ EditQuery
    \/ SelectModel
    \/ ClickGenerate
    \/ Attempt

Spec == Init /\ [][Next]_vars

\* The script is one thread: a pending request is always made.
FairSpec == Spec /\ WF_vars(Attempt)

(***************************************************************************)
(* The scoring specification: the key is entered, the models are listed,   *)
(* and any table of up to MaxRows rows and any query of up to MaxQueryLen  *)
(* characters are on the page; the analyst presses the button.             *)
(***************************************************************************)
ScoreInit ==
    /\ quicksort \in SortBuilds
    /\ \E file \in ScoringFiles, query \in AllQueries :
          PageAfter("key", file, query, ListAll)

ScoreNext == ClickGenerate

ScoreSpec == ScoreInit /\ [][ScoreNext]_vars

(***************************************************************************)
(* Properties.                                                             *)
(***************************************************************************)
Shown(kind) == \E m \in messages : m.kind = kind

FailureKinds == {"generation_failed", "model_unavailable", "quota_exhausted",
                 "technical_error"}

FailureShown == \E m \in messages : m.kind \in FailureKinds

\* C1: a request that fails with NotFound is the last request of its
\* generate action: the action is then in FatalFailure with the error on the
\* page, and no request follows it.
C1_NotFoundFailsImmediately ==
    \A i \in 1..Len(requests) :
        requests[i] = "NotFound" =>
            /\ i = Len(requests)
            /\ phase = "FatalFailure"
            /\ Shown("generation_failed")

\* C2: a generate action makes at most 3 requests; after two failures with a
\* retryable error the third request is still made, and when it succeeds
\* the draft proposal is rendered and no error message is shown.
C2_ThirdAttemptSucceeds ==
    /\ Len(requests) <= 3
    /\ (/\ Len(requests) = 2
        /\ requests[1] \in {"ResourceExhausted", "ServiceUnavailable"}
        /\ requests[2] \in {"ResourceExhausted", "ServiceUnavailable"})
       => phase = "Requesting"
    /\ (/\ Len(requests) = 3
        /\ requests[1] \in {"ResourceExhausted", "ServiceUnavailable"}
        /\ requests[2] \in {"ResourceExhausted", "ServiceUnavailable"}
        /\ requests[3] = "ok")
       => (phase = "Succeeded" /\ Shown("draft_proposal") /\ ~FailureShown)

C2_Witness ==
    /\ requests = <<"ResourceExhausted", "ServiceUnavailable", "ok">>
    /\ phase = "Succeeded"
    /\ Shown("draft_proposal")

\* C3: when the uploaded CSV lacks a required header, the page shows the
\* error that names exactly the required columns the file does not have,
\* and the run does no scoring, builds no prompt and makes no request.
C3_MissingHeadersHalt ==
    (/\ ~uploaded_file.none
     /\ ~uploaded_file.unreadable
     /\ \E k \in 1..Len(required_columns) :
           required_columns[k] \notin Range(uploaded_file.columns))
    => /\ \E m \in messages :
            /\ m.kind = "csv_missing_headers"
            /\ m.level = "error"
            /\ Range(m.detail) = Range(required_columns) \ Range(uploaded_file.columns)
            /\ Cardinality(Range(m.detail)) = Len(m.detail)
       /\ ~scored
       /\ match_score = <<>>
       /\ ~prompt.built
       /\ requests = <<>>
       /\ phase = "Idle"

C3_Witness ==
    /\ uploaded_file.columns = HeaderNoFeatures
    /\ api_key # ""
    /\ selected_model # "None"
    /\ Msg("error", "csv_missing_headers", <<"Product Features">>) \in messages

Min(a, b) == IF a < b THEN a ELSE b

\* C4: the context set of a generate action has exactly min(3, number of
\* rows of the table) rows, all of them different rows of the table.
C4_ContextSetSize ==
    scored =>
        /\ Len(matches) = Min(3, Len(uploaded_file.rows))
        /\ Range(matches) \subseteq 1..Len(uploaded_file.rows)
        /\ Cardinality(Range(matches)) = Len(matches)

C4_Witness ==
    /\ scored
    /\ Len(uploaded_file.rows) = 4
    /\ Len(matches) = 3

\* C5: the selected rows are the first three rows in the order of score
\* descending in which rows with equal score keep their row order.
C5_StableTopThree ==
    scored =>
        /\ \A k \in 1..(Len(matches) - 1) :
              \/ match_score[matches[k]] > match_score[matches[k + 1]]
              \/ /\ match_score[matches[k]] = match_score[matches[k + 1]]
                 /\ matches[k] < matches[k + 1]
        /\ \A k \in 1..Len(matches) :
              \A r \in (1..Len(match_score)) \ Range(matches) :
                  \/ match_score[matches[k]] > match_score[r]
                  \/ match_score[matches[k]] = match_score[r] /\ matches[k] < r

\* The terms of the query as the specification words them: the maximal runs
\* of characters other than whitespace of the lowercased query without its
\* commas.
NormalizedQuery == replace_commas(lower(user_input))

DistinctTerms ==
    LET n == NormalizedQuery
    IN  {SubSeq(n, i, j) : <<i, j>> \in
            {p \in (1..Len(n)) \X (1..Len(n)) :
                /\ p[1] <= p[2]
                /\ \A k \in p[1]..p[2] : n[k] # " "
                /\ (p[1] = 1 \/ n[p[1] - 1] = " ")
                /\ (p[2] = Len(n) \/ n[p[2] + 1] = " ")}}

RowText(r) == lower(StrValues(uploaded_file.rows[r]))

\* C6: the score of a row is the number of distinct terms of the query that
\* occur in the lowercased text of the row's values, and lies between 0 and
\* the number of distinct terms.
C6_ScoreCountsDistinctTerms ==
    scored =>
        /\ Len(match_score) = Len(uploaded_file.rows)
        /\ \A r \in 1..Len(match_score) :
              /\ match_score[r] = Cardinality({t \in DistinctTerms : Contains(t, RowText(r))})
              /\ match_score[r] >= 0
              /\ match_score[r] <= Cardinality(DistinctTerms)

C6_Witness ==
    /\ scored
    /\ user_input = <<"a", " ", "a">>
    /\ \E r \in 1..Len(match_score) : match_score[r] = 1

NoTermInAnyRow ==
    \A r \in 1..Len(uploaded_file.rows) :
        \A t \in DistinctTerms : ~Contains(t, RowText(r))

SelectedScores == {match_score[matches[k]] : k \in 1..Len(matches)}

\* C7 as stated: if no term occurs in any row, all scores are 0 and the
\* context type is "General Logic"; and the context type is "General Logic"
\* only when the maximum score of the selected rows is 0.
C7_NoMatchFlagOriginal ==
    scored =>
        /\ NoTermInAnyRow =>
              /\ \A r \in 1..Len(match_score) : match_score[r] = 0
              /\ context_type = "General Logic"
        /\ context_type = "General Logic" =>
              /\ 0 \in SelectedScores
              /\ \A v \in SelectedScores : v <= 0

\* C7 as amended: the context type is "General Logic" exactly when no selected
\* row has a positive score: the maximum is 0, or the table has no rows.
C7_NoMatchFlag ==
    scored =>
        /\ context_type \in {"General Logic", "Historic Matches"}
        /\ prompt.context_type = context_type
        /\ NoTermInAnyRow =>
              /\ \A r \in 1..Len(match_score) : match_score[r] = 0
              /\ context_type = "General Logic"
        /\ context_type = "General Logic" <=>
              \/ uploaded_file.rows = <<>>
              \/ /\ 0 \in SelectedScores
                 /\ \A v \in SelectedScores : v <= 0

C7_Witness ==
    /\ scored
    /\ Len(uploaded_file.rows) = 2
    /\ NoTermInAnyRow
    /\ context_type = "General Logic"

ListingFailed == api_key # "" /\ list_response = ListException

\* C8 as stated: when listing the models fails, a model is still selected
\* and a generate action with a query goes on to scoring and a request.
C8_DefaultModelOriginal ==
    ListingFailed =>
        /\ selected_model # "None"
        /\ (generate_btn /\ user_input # <<>>) => (scored /\ phase # "Idle")

\* C8 as amended: when listing the models fails, no model is selected and the
\* sidebar shows the connection error; a generate action with a query then
\* shows the select-a-model error and does no scoring and no request.
C8_ListingFailureBlocks ==
    ListingFailed =>
        /\ selected_model = "None"
        /\ Shown("connection_failed")
        /\ (generate_btn /\ user_input # <<>>) =>
              /\ Shown("select_valid_model")
              /\ ~scored
              /\ ~prompt.built
              /\ requests = <<>>
              /\ phase = "Idle"

C8_Witness ==
    /\ ListingFailed
    /\ generate_btn
    /\ user_input # <<>>
    /\ Shown("select_valid_model")

\* C9: a run started by the button with an empty query or without a key
\* shows an error or warning message and does no scoring and no request.
C9_ValidationReported ==
    (generate_btn /\ (user_input = <<>> \/ api_key = "")) =>
        /\ \E m \in messages : m.level \in {"error", "warning"}
        /\ ~scored
        /\ requests = <<>>

Terminal == phase \in {"Succeeded", "FatalFailure"}

\* C10: a generate action that is requesting ends in Succeeded (the draft is
\* rendered, no error) or FatalFailure (the error is shown, no draft) after
\* at most 3 requests; a third failed request is the last one.
C10_GenerateTerminates ==
    /\ [](phase = "Requesting" => <>Terminal)
    /\ [](Len(requests) <= 3)
    /\ []((Len(requests) = 3 /\ requests[3] # "ok") => phase = "FatalFailure")
    /\ [](phase = "Succeeded" => (Shown("draft_proposal") /\ ~FailureShown))
    /\ [](phase = "FatalFailure" => (Shown("generation_failed") /\ ~Shown("draft_proposal")))
    /\ [](Terminal => (requests # <<>> /\ scored))

C10_Witness ==
    /\ phase = "FatalFailure"
    /\ Len(requests) = 3
    /\ Shown("generation_failed")

====
